---- MODULE Spec2Model ----
(***************************************************************************)
(* A model of rust-extlib: the string extension `indent` (src/string.rs)   *)
(* and the error-reporting layer (src/error.rs).                           *)
(*                                                                         *)
(* Strings are sequences of one-character strings.  The two components are *)
(* independent, so each has its own specification: SpecIndent applies      *)
(* `indent` (once, then again to its own output) to every bounded input,   *)
(* Spec runs one operation of the error layer (and repeated config()       *)
(* calls), SpecPair two raising operations with the same message.          *)
(***************************************************************************)
EXTENDS Integers, Sequences, FiniteSets, TLC

VARIABLES
    src,        \* string.rs: the receiver `self` of indent
    width1,     \* string.rs: the `indent` argument of the first call
    out1,       \* string.rs: the result of self.indent(width1)
    width2,     \* string.rs: the `indent` argument of the second call
    out2,       \* string.rs: the result of out1.indent(width2)
    ipc,        \* which of the two indent calls have returned
    debug,      \* error.rs: cfg!(debug_assertions), fixed by the build
    call,       \* error.rs: the operation invoked last, with its arguments
    ret,        \* error.rs: the value that operation returned
    pc,         \* position inside the function that invokes fail!/error!
    laterRan,   \* whether the statement after the macro invocation has run
    eyreHook,   \* color_eyre: the process-wide eyre hook is set
    panicHook,  \* color_eyre: the process-wide panic hook is set
    installs,   \* number of installations that took effect
    configCalls, \* number of config() calls that have returned
    prevCall,   \* the raising operation before the last one, when recorded
    prevRet     \* and the value it returned

indentVars == <<src, width1, out1, width2, out2, ipc>>
hookVars == <<eyreHook, panicHook, installs, configCalls>>
pairVars == <<prevCall, prevRet>>
errorVars == <<debug, call, ret, pc, laterRan, eyreHook, panicHook, installs,
               configCalls, prevCall, prevRet>>
vars == <<src, width1, out1, width2, out2, ipc,
          debug, call, ret, pc, laterRan, eyreHook, panicHook, installs,
          configCalls, prevCall, prevRet>>

-----------------------------------------------------------------------------
(* Bounds *)

MaxLen == 4          \* longest input text of indent
MaxWidth == 2        \* largest indent width
MaxMsgLen == 1       \* longest message string
MaxNum == 10         \* largest integer used as a message
MaxFmtLen == 3       \* longest format string given to fail!/error!
MaxLine == 10        \* largest line number of a call site
MaxConfigCalls == 3  \* config() calls in one run

-----------------------------------------------------------------------------
(* Strings *)

LF == "\n"
CR == "\r"
SP == " "

TextAlphabet == {"a", SP, LF, CR}

StringsOver(alphabet, n) == UNION {[1..k -> alphabet] : k \in 0..n}

\* The inputs the documentation of indent quotes, next to all short strings.
ExampleTexts == { <<"a", LF, "b">>, <<"a", LF, LF, "b">>, <<"l", "i", "n", "e">> }

Texts == StringsOver(TextAlphabet, MaxLen) \cup ExampleTexts

Widths == 0..MaxWidth

-----------------------------------------------------------------------------
(* string.rs: indent, computed as the code computes it *)

\* Index of the first element of s equal to c, 0 when there is none.
FirstIndex(s, c) ==
    IF \E i \in 1..Len(s) : s[i] = c
    THEN CHOOSE i \in 1..Len(s) : s[i] = c /\ \A j \in 1..(i - 1) : s[j] # c
    ELSE 0

\* A split that also yields the empty piece after a final '\n'.
RECURSIVE SplitWithTrailingPiece(_)
SplitWithTrailingPiece(s) ==
    IF s = <<>> THEN << <<>> >>
    ELSE LET i == FirstIndex(s, LF) IN
         IF i = 0 THEN <<s>>
         ELSE <<SubSeq(s, 1, i)>> \o SplitWithTrailingPiece(SubSeq(s, i + 1, Len(s)))

\* str::split_inclusive('\n'): every piece keeps its terminating '\n'; the
\* rest after the last '\n' is a piece only when it is not empty.
RECURSIVE SplitInclusive(_)
SplitInclusive(s) ==
    IF s = <<>> THEN <<>>
    ELSE LET i == FirstIndex(s, LF) IN
         IF i = 0 THEN <<s>>
         ELSE <<SubSeq(s, 1, i)>> \o SplitInclusive(SubSeq(s, i + 1, Len(s)))

EndsWith(s, c) == Len(s) > 0 /\ s[Len(s)] = c

DropLast(s) == SubSeq(s, 1, Len(s) - 1)

\* A map that strips the '\n' only and keeps a '\r' before it.
LinesMapKeepingCR(piece) ==
    IF ~EndsWith(piece, LF) THEN piece ELSE DropLast(piece)

\* The map of str::lines over the pieces: strip one final '\n', and then,
\* only when a '\n' was stripped, one final '\r'.
LinesMap(piece) ==
    IF ~EndsWith(piece, LF) THEN piece
    ELSE LET line == DropLast(piece) IN
         IF ~EndsWith(line, CR) THEN line ELSE DropLast(line)

\* self.lines()
Lines(s) ==
    LET pieces == SplitInclusive(s) IN
    [i \in 1..Len(pieces) |-> LinesMap(pieces[i])]

\* A repeat that is one too long.
RepeatOneMore(c, n) == [i \in 1..(n + 1) |-> c]

\* " ".repeat(indent)
Repeat(c, n) == [i \in 1..n |-> c]

\* A closure that pads the empty lines too.
IndentLinePaddingBlank(line, indent) == Repeat(SP, indent) \o line

\* The closure given to map: an empty line is kept, any other is padded.
IndentLine(line, indent) ==
    IF line = <<>> THEN line ELSE Repeat(SP, indent) \o line

\* Vec<String>::join(sep)
RECURSIVE Join(_, _)
Join(strs, sep) ==
    IF strs = <<>> THEN <<>>
    ELSE IF Len(strs) = 1 THEN strs[1]
    ELSE strs[1] \o sep \o Join(Tail(strs), sep)

\* StringExt::indent
Indent(s, indent) ==
    LET lines == Lines(s) IN
    Join([i \in 1..Len(lines) |-> IndentLine(lines[i], indent)], <<LF>>)

-----------------------------------------------------------------------------
(* Displayable values and format strings *)

\* A value with a Display implementation: a string, an unsigned integer or
\* a Report (whose Display is its message).
StrValue(t) == [kind |-> "str", text |-> t, num |-> 0]
IntValue(n) == [kind |-> "int", text |-> <<>>, num |-> n]
ReportValue(t) == [kind |-> "report", text |-> t, num |-> 0]

Digits == <<"0", "1", "2", "3", "4", "5", "6", "7", "8", "9">>

\* Display of an unsigned integer: decimal, no leading zeros.
RECURSIVE Decimal(_)
Decimal(n) ==
    IF n < 10 THEN <<Digits[n + 1]>>
    ELSE Decimal(n \div 10) \o <<Digits[(n % 10) + 1]>>

\* format!("{}", v)
Render(v) == IF v.kind = "int" THEN Decimal(v.num) ELSE v.text

\* Number of "{}" placeholders of a format string, -1 when the compiler
\* rejects it.  "{{" and "}}" are the escapes of "{" and "}".
RECURSIVE Placeholders(_)
Placeholders(fmt) ==
    IF fmt = <<>> THEN 0
    ELSE IF fmt[1] \notin {"{", "}"} THEN Placeholders(Tail(fmt))
    ELSE IF Len(fmt) < 2 THEN -1
    ELSE LET rest == Placeholders(SubSeq(fmt, 3, Len(fmt))) IN
         IF rest = -1 THEN -1
         ELSE IF fmt[2] = fmt[1] THEN rest
         ELSE IF fmt[1] = "{" THEN rest + 1
         ELSE -1

\* format!(fmt, args...): escapes are collapsed, each "{}" is replaced by the
\* rendering of the next argument.
RECURSIVE Format(_, _)
Format(fmt, args) ==
    IF fmt = <<>> THEN <<>>
    ELSE IF fmt[1] \notin {"{", "}"} THEN <<fmt[1]>> \o Format(Tail(fmt), args)
    ELSE IF fmt[2] = fmt[1] THEN <<fmt[1]>> \o Format(SubSeq(fmt, 3, Len(fmt)), args)
    ELSE Render(args[1]) \o Format(SubSeq(fmt, 3, Len(fmt)), Tail(args))

-----------------------------------------------------------------------------
(* error.rs: values *)

\* The file!() of error.rs itself and the line of report_error that calls
\* create_error.
ErrorRs == <<"s", "r", "c", "/", "e", "r", "r", "o", "r", ".", "r", "s">>
ReportErrorLine == 75

UserFiles == { <<"m", "a", "i", "n", ".", "r", "s">>, <<"l", "i", "b", ".", "r", "s">> }

\* std::panic::Location: the places in user code that call into the library.
SiteLines == {1, MaxLine - 1, MaxLine}
Sites == [file : UserFiles, line : SiteLines]

NoSite == [file |-> <<>>, line |-> 0]

MsgAlphabet == {"e", "{"}

Messages ==
    {StrValue(t) : t \in StringsOver(MsgAlphabet, MaxMsgLen)}
        \cup {IntValue(n) : n \in {0, MaxNum}}

FmtAlphabet == {"e", "{", "}"}

\* Format strings that compile with n arguments.
Formats(n) == {f \in StringsOver(FmtAlphabet, MaxFmtLen) : Placeholders(f) = n}

Options == {[some |-> FALSE, val |-> 0], [some |-> TRUE, val |-> 0], [some |-> TRUE, val |-> 1]}

NoOpt == [some |-> FALSE, val |-> 0]

\* Return values: a bare Report, Ok(val), Err(Report), () or nothing yet.
Report(t) == [variant |-> "Report", text |-> t, val |-> 0]
Err(report) == [variant |-> "Err", text |-> report.text, val |-> 0]
Ok(x) == [variant |-> "Ok", text |-> <<>>, val |-> x]
Unit == [variant |-> "unit", text |-> <<>>, val |-> 0]
NoRet == [variant |-> "none", text |-> <<>>, val |-> 0]

Call(op, arm, fmt, arg, site, opt, cond) ==
    [op |-> op, arm |-> arm, fmt |-> fmt, arg |-> arg, site |-> site,
     opt |-> opt, cond |-> cond]

NoCall == Call("none", "none", <<>>, StrValue(<<>>), NoSite, NoOpt, FALSE)

-----------------------------------------------------------------------------
(* error.rs: functions and macros *)

DebugFormat ==
    <<"{", "}", LF, "R", "a", "i", "s", "e", "d", " ", "a", "t", " ",
      "f", "i", "l", "e", ":", " ", "{", "}", ":", "{", "}", ".">>

\* eyre!(msg) with msg a String: a Report whose Display is msg.
eyre(msg) == Report(msg)

\* A create_error that appends the location in every build.
create_error_always_located(error_msg, loc) ==
    eyre(Format(DebugFormat, <<error_msg, StrValue(loc.file), IntValue(loc.line)>>))

\* create_error(error_msg), with loc the value of Location::caller().
create_error(error_msg, loc) ==
    LET msg == IF debug
               THEN Format(DebugFormat,
                           <<error_msg, StrValue(loc.file), IntValue(loc.line)>>)
               ELSE Format(<<"{", "}">>, <<error_msg>>)
    IN  eyre(msg)

\* The message the three arms of fail!/error! give to create_error.
MacroMessage(arm, fmt, arg) ==
    CASE arm = "literal" -> StrValue(Format(fmt, <<>>))
      [] arm = "expr"    -> arg
      [] arm = "fmt"     -> ReportValue(Format(fmt, <<arg>>))

\* error!: `return create_error(..)`; the caller of create_error is the
\* place of the macro invocation.
error_macro(arm, fmt, arg, site) ==
    [ret |-> create_error(MacroMessage(arm, fmt, arg), site), pc |-> "returned"]

\* A fail! without the `return`: the function runs on.
fail_macro_falling_through(arm, fmt, arg, site) ==
    [ret |-> Err(create_error(MacroMessage(arm, fmt, arg), site)), pc |-> "later"]

\* fail!: `return Err(create_error(..))`.
fail_macro(arm, fmt, arg, site) ==
    [ret |-> Err(create_error(MacroMessage(arm, fmt, arg), site)), pc |-> "returned"]

\* A report_error that hands back the success variant.
report_error_ok(error_msg, caller) == Ok(0)

\* A report_error that tracks its caller, as create_error does.
report_error_tracking_caller(error_msg, caller) ==
    Err(create_error(error_msg, caller))

\* report_error: it does not track its caller, so the caller of create_error
\* is line 75 of error.rs whatever the place `caller` of the invocation.
report_error(error_msg, caller) ==
    LET report == create_error(error_msg, [file |-> ErrorRs, line |-> ReportErrorLine])
    IN  Err(report)

\* An ok_or_error that builds its error with create_error.
ok_or_error_located(self, message, caller) ==
    IF self.some THEN Ok(self.val) ELSE Err(create_error(message, caller))

\* OptionExt::ok_or_error: eyre::Report::msg(message) on None; the tracked
\* caller is not read.
ok_or_error(self, message, caller) ==
    IF self.some THEN Ok(self.val) ELSE Err(Report(Render(message)))

\* color_eyre::install(): eyre::set_hook fails when a hook is already set,
\* and then the panic hook is not touched either.
install(eyre_hook, panic_hook) ==
    IF eyre_hook # "none"
    THEN [ok |-> FALSE, eyre |-> eyre_hook, panic |-> panic_hook]
    ELSE [ok |-> TRUE, eyre |-> "color_eyre", panic |-> "color_eyre"]

\* A config that hands the failure of install to its caller.
config_propagating(eyre_hook, panic_hook) ==
    LET r == install(eyre_hook, panic_hook) IN
    [ret |-> IF r.ok THEN Unit ELSE Err(Report(<<"s", "e", "t">>)),
     eyre |-> r.eyre, panic |-> r.panic, installed |-> r.ok]

\* config(): `let _ = color_eyre::install();`
config(eyre_hook, panic_hook) ==
    LET r == install(eyre_hook, panic_hook) IN
    [ret |-> Unit, eyre |-> r.eyre, panic |-> r.panic, installed |-> r.ok]

-----------------------------------------------------------------------------
(* Specification of indent: every bounded text, indented once and again *)

IndentIdle ==
    /\ width1 = 0 /\ out1 = <<>> /\ width2 = 0 /\ out2 = <<>>

ErrorIdle ==
    /\ call = NoCall /\ ret = NoRet /\ pc = "idle" /\ laterRan = FALSE
    /\ panicHook = "std" /\ installs = 0 /\ configCalls = 0
    /\ prevCall = NoCall /\ prevRet = NoRet

InitIndent ==
    /\ src \in Texts
    /\ ipc = "input"
    /\ IndentIdle
    /\ debug = FALSE /\ eyreHook = "none"
    /\ ErrorIdle

\* out1 = src.indent(n)
IndentOnce(n) ==
    /\ ipc = "input"
    /\ width1' = n
    /\ out1' = Indent(src, n)
    /\ ipc' = "once"
    /\ UNCHANGED <<src, width2, out2>>
    /\ UNCHANGED errorVars

\* out2 = out1.indent(n)
IndentAgain(n) ==
    /\ ipc = "once"
    /\ width2' = n
    /\ out2' = Indent(out1, n)
    /\ ipc' = "twice"
    /\ UNCHANGED <<src, width1, out1>>
    /\ UNCHANGED errorVars

NextIndent ==
    \/ \E n \in Widths : IndentOnce(n)
    \/ \E n \in Widths : IndentAgain(n)

SpecIndent == InitIndent /\ [][NextIndent]_vars

-----------------------------------------------------------------------------
(* Specification of the error layer *)

\* The build fixes debug; another library may have set the eyre hook before.
Init ==
    /\ debug \in BOOLEAN
    /\ eyreHook \in {"none", "other"}
    /\ ErrorIdle
    /\ src = <<>> /\ ipc = "input" /\ IndentIdle

\* One operation per run, on arguments drawn here; config() may be called
\* again after it has returned.
Ready == pc = "idle"

Returns(c, r) ==
    /\ call' = c
    /\ ret' = r
    /\ pc' = "returned"
    /\ laterRan' = FALSE

CallCreateError(m, site) ==
    /\ Ready
    /\ Returns(Call("create_error", "none", <<>>, m, site, NoOpt, FALSE),
               create_error(m, site))
    /\ UNCHANGED <<debug, hookVars, pairVars, indentVars>>

CallReportError(m, site) ==
    /\ Ready
    /\ Returns(Call("report_error", "none", <<>>, m, site, NoOpt, FALSE),
               report_error(m, site))
    /\ UNCHANGED <<debug, hookVars, pairVars, indentVars>>

CallOkOrError(opt, m, site) ==
    /\ Ready
    /\ Returns(Call("ok_or_error", "none", <<>>, m, site, opt, FALSE),
               ok_or_error(opt, m, site))
    /\ UNCHANGED <<debug, hookVars, pairVars, indentVars>>

CallConfig ==
    /\ call.op \in {"none", "config"}
    /\ configCalls < MaxConfigCalls
    /\ LET r == config(eyreHook, panicHook) IN
        /\ Returns(Call("config", "none", <<>>, StrValue(<<>>), NoSite, NoOpt, FALSE),
                   r.ret)
        /\ eyreHook' = r.eyre
        /\ panicHook' = r.panic
        /\ installs' = installs + (IF r.installed THEN 1 ELSE 0)
    /\ configCalls' = configCalls + 1
    /\ UNCHANGED <<debug, pairVars, indentVars>>

\* A function of the user whose body is
\*     if cond { fail!(..) }  <later statement>;  <tail expression>
\* (error!(..) in a function that returns a Report).
MacroArgs ==
    {<<"literal", f, StrValue(<<>>)>> : f \in Formats(0)}
        \cup {<<"expr", <<>>, m>> : m \in Messages}
        \cup {<<"fmt", f, m>> : f \in Formats(1), m \in Messages}

EnterFunction(op, a, site, cond) ==
    /\ Ready
    /\ call' = Call(op, a[1], a[2], a[3], site, NoOpt, cond)
    /\ ret' = NoRet
    /\ pc' = "test"
    /\ laterRan' = FALSE
    /\ UNCHANGED <<debug, hookVars, pairVars, indentVars>>

InvokeFail ==
    /\ pc = "test" /\ call.op = "fail" /\ call.cond
    /\ LET r == fail_macro(call.arm, call.fmt, call.arg, call.site) IN
        /\ ret' = r.ret
        /\ pc' = r.pc
    /\ UNCHANGED <<call, laterRan, debug, hookVars, pairVars, indentVars>>

InvokeError ==
    /\ pc = "test" /\ call.op = "error" /\ call.cond
    /\ LET r == error_macro(call.arm, call.fmt, call.arg, call.site) IN
        /\ ret' = r.ret
        /\ pc' = r.pc
    /\ UNCHANGED <<call, laterRan, debug, hookVars, pairVars, indentVars>>

SkipMacro ==
    /\ pc = "test" /\ ~call.cond
    /\ pc' = "later"
    /\ UNCHANGED <<call, ret, laterRan, debug, hookVars, pairVars, indentVars>>

LaterStatement ==
    /\ pc = "later"
    /\ laterRan' = TRUE
    /\ pc' = "tail"
    /\ UNCHANGED <<call, ret, debug, hookVars, pairVars, indentVars>>

ReturnTail ==
    /\ pc = "tail"
    /\ ret' = IF call.op = "fail" THEN Ok(0) ELSE Report(<<"t", "a", "i", "l">>)
    /\ pc' = "returned"
    /\ UNCHANGED <<call, laterRan, debug, hookVars, pairVars, indentVars>>

Next ==
    \/ \E m \in Messages, site \in Sites : CallCreateError(m, site)
    \/ \E m \in Messages, site \in Sites : CallReportError(m, site)
    \/ \E opt \in Options, m \in Messages, site \in Sites : CallOkOrError(opt, m, site)
    \/ CallConfig
    \/ \E op \in {"fail", "error"}, a \in MacroArgs, site \in Sites, cond \in BOOLEAN :
          EnterFunction(op, a, site, cond)
    \/ InvokeFail
    \/ InvokeError
    \/ SkipMacro
    \/ LaterStatement
    \/ ReturnTail

Spec == Init /\ [][Next]_vars

-----------------------------------------------------------------------------
(* Specification of two raising operations in sequence, same message *)

RaiseOps == {"create_error", "report_error", "fail", "error"}

\* What the operation hands back when invoked with message m at site.
Raise(op, m, site) ==
    CASE op = "create_error" -> create_error(m, site)
      [] op = "report_error" -> report_error(m, site)
      [] op = "fail"         -> fail_macro("expr", <<>>, m, site).ret
      [] op = "error"        -> error_macro("expr", <<>>, m, site).ret

RaiseCall(op, m, site) ==
    Call(op, IF op \in {"fail", "error"} THEN "expr" ELSE "none", <<>>, m, site,
         NoOpt, op \in {"fail", "error"})

RaiseFirst(op, m, site) ==
    /\ pc = "idle"
    /\ Returns(RaiseCall(op, m, site), Raise(op, m, site))
    /\ UNCHANGED <<debug, hookVars, pairVars, indentVars>>

RaiseSecond(op, site) ==
    /\ pc = "returned" /\ prevCall = NoCall
    /\ prevCall' = call
    /\ prevRet' = ret
    /\ Returns(RaiseCall(op, call.arg, site), Raise(op, call.arg, site))
    /\ UNCHANGED <<debug, hookVars, indentVars>>

NextPair ==
    \/ \E op \in RaiseOps, m \in Messages, site \in Sites : RaiseFirst(op, m, site)
    \/ \E op \in RaiseOps, site \in Sites : RaiseSecond(op, site)

SpecPair == Init /\ [][NextPair]_vars

-----------------------------------------------------------------------------
(* Properties of indent, stated without the operators above *)

CountOf(s, c) == Cardinality({i \in 1..Len(s) : s[i] = c})

\* Position of the k-th '\n' of s; 0 for k = 0.
NthNewline(s, k) ==
    IF k = 0 THEN 0
    ELSE CHOOSE i \in 1..Len(s) :
            s[i] = LF /\ Cardinality({j \in 1..i : s[j] = LF}) = k

\* The lines of s as the documentation of str::lines describes them: a line
\* ends at "\n" or "\r\n", the ending is not part of it, and what follows the
\* last ending is a line only when it is not empty.
DocLines(s) ==
    LET n == CountOf(s, LF)
        rest == SubSeq(s, NthNewline(s, n) + 1, Len(s))
        terminated(k) ==
            LET from == NthNewline(s, k - 1) + 1
                to == NthNewline(s, k) - 1
            IN  IF to >= from /\ s[to] = CR THEN SubSeq(s, from, to - 1)
                ELSE SubSeq(s, from, to)
    IN  [k \in 1..(IF rest = <<>> THEN n ELSE n + 1) |->
            IF k <= n THEN terminated(k) ELSE rest]

\* Length of the line as indented by w: blank lines stay blank.
PaddedLen(line, w) == IF line = <<>> THEN 0 ELSE w + Len(line)

RECURSIVE OffsetOf(_, _, _)
\* Number of characters of the output before its i-th line.
OffsetOf(lines, w, i) ==
    IF i = 1 THEN 0 ELSE OffsetOf(lines, w, i - 1) + PaddedLen(lines[i - 1], w) + 1

\* out is the lines, in order, each non-empty one behind w spaces, with one
\* '\n' between neighbours and nothing else.
IsIndentedJoin(out, lines, w) ==
    LET n == Len(lines) IN
    /\ Len(out) = IF n = 0 THEN 0 ELSE OffsetOf(lines, w, n) + PaddedLen(lines[n], w)
    /\ \A i \in 1..n :
        LET off == OffsetOf(lines, w, i)
            pad == IF lines[i] = <<>> THEN 0 ELSE w
        IN  /\ \A j \in 1..pad : out[off + j] = SP
            /\ \A j \in 1..Len(lines[i]) : out[off + pad + j] = lines[i][j]
            /\ i < n => out[off + pad + Len(lines[i]) + 1] = LF

\* C1: indent(s, n) is the lines of s in their order, joined by single '\n',
\* every empty line unchanged and every other line behind exactly n spaces;
\* the four quoted examples come out as quoted.
C1_IndentContract ==
    ipc # "input" =>
        /\ IsIndentedJoin(out1, DocLines(src), width1)
        /\ src = <<>> => out1 = <<>>
        /\ (src = <<"a", LF, "b">> /\ width1 = 2)
              => out1 = <<SP, SP, "a", LF, SP, SP, "b">>
        /\ (src = <<"a", LF, LF, "b">> /\ width1 = 2)
              => out1 = <<SP, SP, "a", LF, LF, SP, SP, "b">>
        /\ (src = <<"l", "i", "n", "e">> /\ width1 = 0)
              => out1 = <<"l", "i", "n", "e">>

C1_Witness ==
    ipc = "once" /\ src = <<"a", LF, LF, "b">> /\ width1 = 2

HasCRLF(s) == \E i \in 1..(Len(s) - 1) : s[i] = CR /\ s[i + 1] = LF

\* C6 as stated: with "\r\n" line terminators every '\r' of the input is
\* still in the output.
C6_EveryCRPreserved ==
    (ipc # "input" /\ HasCRLF(src)) => CountOf(out1, CR) = CountOf(src, CR)

\* s without the '\r' that stand immediately before a '\n'.
RECURSIVE WithoutTerminatorCR(_)
WithoutTerminatorCR(s) ==
    IF s = <<>> THEN <<>>
    ELSE IF Len(s) >= 2 /\ s[1] = CR /\ s[2] = LF THEN WithoutTerminatorCR(Tail(s))
    ELSE <<s[1]>> \o WithoutTerminatorCR(Tail(s))

IsContent(c) == c \notin {SP, LF}

\* C6 amended: a '\r' immediately before a '\n' is dropped with it; every
\* other '\r' stays in its line: the characters of the output other than
\* spaces and '\n' are those of the input without the terminator '\r', in
\* order, and the '\n' of the output separate the same lines.
C6_OnlyTerminatorCRDropped ==
    ipc # "input" =>
        /\ SelectSeq(out1, IsContent) = SelectSeq(WithoutTerminatorCR(src), IsContent)
        /\ CountOf(out1, CR) =
              CountOf(src, CR)
                - Cardinality({i \in 1..(Len(src) - 1) : src[i] = CR /\ src[i + 1] = LF})

C6_Witness ==
    /\ ipc = "once" /\ width1 > 0
    /\ HasCRLF(src)
    /\ \E i \in 1..Len(src) : src[i] = CR /\ (i = Len(src) \/ src[i + 1] # LF)

\* C7: the output has one '\n' fewer than an input that ends in '\n', and as
\* many as an input that does not.
C7_NoTrailingLine ==
    ipc # "input" =>
        CountOf(out1, LF) = CountOf(src, LF) - (IF EndsWith(src, LF) THEN 1 ELSE 0)

C7_Witness ==
    ipc = "once" /\ EndsWith(src, LF) /\ CountOf(src, LF) >= 2 /\ Len(src) >= 3

\* C9 as stated: indent(indent(s, a), b) = indent(s, a + b) for every s.
C9_Additive ==
    ipc = "twice" => out2 = Indent(src, width1 + width2)

\* The texts whose lines the first indent hands on unchanged to the second:
\* the last of two or more lines is not empty, and no line but the last ends
\* in '\r'.
LinesSurviveJoin(s) ==
    LET lines == DocLines(s) IN
    /\ Len(lines) >= 2 => lines[Len(lines)] # <<>>
    /\ \A i \in 1..(Len(lines) - 1) : ~EndsWith(lines[i], CR)

\* C9 amended: indent(indent(s, a), b) = indent(s, a + b) for every s whose
\* last line (of two or more) is not empty and none of whose other lines
\* ends in '\r'; for every other s the two sides differ at some widths.
C9_AdditiveWhenLinesSurvive ==
    ipc = "twice" =>
        /\ LinesSurviveJoin(src) => out2 = Indent(src, width1 + width2)
        /\ (~LinesSurviveJoin(src) /\ width1 = 0 /\ width2 = 0) => out2 # Indent(src, 0)

C9_Witness ==
    /\ ipc = "twice" /\ width1 > 0 /\ width2 > 0
    /\ LinesSurviveJoin(src)
    /\ Len(DocLines(src)) >= 3
    /\ DocLines(src)[2] = <<>>

-----------------------------------------------------------------------------
(* Properties of the error layer *)

IsPrefix(p, s) == Len(p) <= Len(s) /\ SubSeq(s, 1, Len(p)) = p

RaisedAt ==
    <<LF, "R", "a", "i", "s", "e", "d", " ", "a", "t", " ", "f", "i", "l", "e", ":", " ">>

DigitValue(c) == CHOOSE k \in 0..9 : Digits[k + 1] = c

RECURSIVE DigitsValue(_)
DigitsValue(d) ==
    IF d = <<>> THEN 0 ELSE 10 * DigitsValue(DropLast(d)) + DigitValue(d[Len(d)])

\* suffix is "\nRaised at file: <file>:<line>." with a non-empty file and a
\* positive line written in decimal.
IsLocationSuffix(suffix, file, line) ==
    LET from == Len(RaisedAt) + Len(file) + 2
        d == SubSeq(suffix, from, Len(suffix) - 1)
    IN  /\ file # <<>> /\ line > 0
        /\ Len(suffix) > from
        /\ suffix = RaisedAt \o file \o <<":">> \o d \o <<".">>
        /\ \A i \in 1..Len(d) : \E k \in 0..9 : d[i] = Digits[k + 1]
        /\ d[1] # "0"
        /\ DigitsValue(d) = line

\* text is what create_error renders for the message text m raised at loc.
IsRaisedText(text, m, loc) ==
    IF debug
    THEN /\ IsPrefix(m, text)
         /\ IsLocationSuffix(SubSeq(text, Len(m) + 1, Len(text)), loc.file, loc.line)
    ELSE text = m

\* C2: create_error(m) hands back a Report; in a debug build its text is m's
\* rendering followed by "\nRaised at file: <file>:<line>." of its immediate
\* caller, in a release build it is m's rendering alone.
C2_CreateErrorText ==
    call.op = "create_error" =>
        /\ pc = "returned"
        /\ ret.variant = "Report"
        /\ IsRaisedText(ret.text, Render(call.arg), call.site)

C2_Witness ==
    /\ call.op = "create_error" /\ debug
    /\ call.arg.kind = "int" /\ call.arg.num >= 10
    /\ call.site.line >= 10

C2_WitnessRelease ==
    call.op = "create_error" /\ ~debug /\ Render(call.arg) # <<>>

\* C3: in both builds ok_or_error(Some(x), m) is Ok(x) and ok_or_error(None, m)
\* is an Err whose text is exactly m's rendering, without a location.
C3_OkOrError ==
    call.op = "ok_or_error" =>
        /\ pc = "returned"
        /\ IF call.opt.some
           THEN ret = Ok(call.opt.val)
           ELSE ret.variant = "Err" /\ ret.text = Render(call.arg)

C3_Witness ==
    call.op = "ok_or_error" /\ debug /\ ~call.opt.some /\ ret.text # <<>>

\* The function has gone past the place of its fail!/error! with the
\* condition that invokes the macro true.
MacroInvoked(op) == call.op = op /\ call.cond /\ pc # "test"

\* C4 as stated: fail! with a literal returns at once the Err of an error
\* whose rendering starts with the text of the literal; error! likewise with
\* the bare error.
C4_StartsWithLiteral ==
    /\ (MacroInvoked("fail") /\ call.arm = "literal") =>
          /\ pc = "returned" /\ ~laterRan
          /\ ret.variant = "Err"
          /\ IsPrefix(call.fmt, ret.text)
    /\ (MacroInvoked("error") /\ call.arm = "literal") =>
          /\ pc = "returned" /\ ~laterRan
          /\ ret.variant = "Report"
          /\ IsPrefix(call.fmt, ret.text)

\* The text a format string without placeholders stands for: "{{" is "{" and
\* "}}" is "}".
RECURSIVE Unescaped(_)
Unescaped(lit) ==
    IF lit = <<>> THEN <<>>
    ELSE IF Len(lit) >= 2 /\ lit[1] \in {"{", "}"} /\ lit[2] = lit[1]
         THEN <<lit[1]>> \o Unescaped(SubSeq(lit, 3, Len(lit)))
         ELSE <<lit[1]>> \o Unescaped(Tail(lit))

HasBrace(lit) == \E i \in 1..Len(lit) : lit[i] \in {"{", "}"}

\* C4 amended: fail! with a literal returns at once (no later statement runs)
\* the Err of the error create_error builds at the place of the invocation;
\* its rendering starts with the literal as format! renders it, "{{" and "}}"
\* standing for "{" and "}", which is the literal itself when it has no
\* brace; error! likewise with the bare error.
C4_StartsWithFormattedLiteral ==
    /\ (MacroInvoked("fail") /\ call.arm = "literal") =>
          /\ pc = "returned" /\ ~laterRan
          /\ ret.variant = "Err"
          /\ IsRaisedText(ret.text, Unescaped(call.fmt), call.site)
          /\ ~HasBrace(call.fmt) => IsPrefix(call.fmt, ret.text)
    /\ (MacroInvoked("error") /\ call.arm = "literal") =>
          /\ pc = "returned" /\ ~laterRan
          /\ ret.variant = "Report"
          /\ IsRaisedText(ret.text, Unescaped(call.fmt), call.site)
          /\ ~HasBrace(call.fmt) => IsPrefix(call.fmt, ret.text)

C4_Witness ==
    /\ MacroInvoked("fail") /\ call.arm = "literal"
    /\ HasBrace(call.fmt) /\ Len(call.fmt) >= 3
    /\ ret.variant = "Err"

C4_WitnessError ==
    /\ MacroInvoked("error") /\ call.arm = "literal"
    /\ call.fmt # <<>> /\ ~HasBrace(call.fmt)
    /\ ret.variant = "Report"

\* C5: no config() call hands a failure to its caller, at most one
\* installation takes effect, and once one has, no step changes the
\* registration.
C5_ConfigOnce ==
    /\ [](call.op = "config" => (pc = "returned" /\ ret = Unit))
    /\ [](installs <= 1 /\ (installs = 1 => eyreHook = "color_eyre" /\ panicHook = "color_eyre"))
    /\ [][installs >= 1 => UNCHANGED <<eyreHook, panicHook, installs>>]_vars

C5_Witness ==
    configCalls >= 2 /\ installs = 1 /\ call.op = "config" /\ eyreHook = "color_eyre"

C5_WitnessInstallFails ==
    configCalls >= 2 /\ installs = 0 /\ call.op = "config" /\ eyreHook = "other"

\* C8: report_error(m) is an Err, never an Ok, of the error create_error(m)
\* builds: its rendering starts with m's rendering, and is m's rendering
\* alone in a release build.
C8_ReportErrorFails ==
    call.op = "report_error" =>
        /\ pc = "returned"
        /\ ret.variant = "Err"
        /\ IsPrefix(Render(call.arg), ret.text)
        /\ IF debug
           THEN IsPrefix(RaisedAt, SubSeq(ret.text, Len(Render(call.arg)) + 1, Len(ret.text)))
           ELSE ret.text = Render(call.arg)

C8_Witness ==
    call.op = "report_error" /\ debug /\ Render(call.arg) # <<>>

Located == {"create_error", "fail", "error"}

C10_WitnessLocated ==
    /\ debug /\ prevCall.op = "create_error" /\ call.op = "fail"
    /\ call.site.file = prevCall.site.file /\ call.site.line # prevCall.site.line

====
